---- MODULE Spec2Model ----
(***************************************************************************)
(* State-machine model of cloud_zip (src/src/main.rs): the index builder   *)
(* save_central_directory_with_offsets, the CBOR index file, and the two   *)
(* partial extractors extract_file_from_local_zip and                      *)
(* extract_file_from_cloud_zip.                                            *)
(*                                                                         *)
(* Files are byte sequences (naturals 0..255).  Strings are sequences of   *)
(* character codes.  The ZIP container, the CBOR encoding and raw deflate  *)
(* (stored blocks) are modelled at byte level as the libraries called by   *)
(* main.rs read and write them.                                            *)
(***************************************************************************)
EXTENDS Integers, Sequences, FiniteSets, TLC

(***************************************************************************)
(* Bounds of the model.                                                    *)
(***************************************************************************)
\* length of the extra field in the deflated member's local header
MaxExtra == 1

(***************************************************************************)
(* Byte helpers.                                                           *)
(***************************************************************************)
Min(a, b) == IF a < b THEN a ELSE b

\* k-byte little-endian encoding of n (the ZIP container's integers)
LE(n, k) == [i \in 1..k |-> (n \div (256 ^ (i - 1))) % 256]

\* little-endian reads at 0-based position pos; callers check the length
RdLE2(bytes, pos) == bytes[pos + 1] + 256 * bytes[pos + 2]

RdLE4(bytes, pos) ==
    bytes[pos + 1] + 256 * bytes[pos + 2] + 65536 * bytes[pos + 3]
        + 16777216 * bytes[pos + 4]

\* bytes[pos .. pos+n-1] (0-based pos), cut short at the end of the sequence:
\* what a read of n bytes at pos returns (Read::take over a seeked File)
Slice(bytes, pos, n) ==
    IF pos >= Len(bytes) THEN <<>>
    ELSE SubSeq(bytes, pos + 1, Min(pos + n, Len(bytes)))

RECURSIVE Zeros(_)
Zeros(n) == IF n = 0 THEN <<>> ELSE <<0>> \o Zeros(n - 1)

(***************************************************************************)
(* Raw deflate.  Deflate is the writer side (what the archive's producer   *)
(* stored): one final stored block.  Inflate is flate2's DeflateDecoder    *)
(* restricted to stored blocks and the reserved block type.                *)
(***************************************************************************)
Deflate(content) ==
    <<1>> \o LE(Len(content), 2) \o LE(65535 - Len(content), 2) \o content

\* Result of draining the decoder with io::copy:
\*   status "end"       final block decoded (bytes after it are not read)
\*          "truncated" input ended inside a block: the backend either
\*                      reports the end of the stream (io::copy returns Ok
\*                      with what was out) or an error
\*          "corrupt"   invalid block: Err("corrupt deflate stream")
\*          "entropy"   a Huffman-coded block (types 1, 2): its decoding is
\*                      outside the model, which stops there
RECURSIVE Inflate(_, _)
Inflate(input, out) ==
    IF Len(input) = 0 THEN [status |-> "truncated", out |-> out]
    ELSE LET hdr    == input[1]
             bfinal == hdr % 2
             btype  == (hdr \div 2) % 4
         IN  IF btype = 3 THEN [status |-> "corrupt", out |-> out]
             ELSE IF btype # 0 THEN [status |-> "entropy", out |-> out]
             ELSE IF Len(input) < 5 THEN [status |-> "truncated", out |-> out]
             ELSE LET len  == RdLE2(input, 1)
                      nlen == RdLE2(input, 3)
                  IN  IF nlen # 65535 - len
                      THEN [status |-> "corrupt", out |-> out]
                      ELSE IF Len(input) < 5 + len
                      THEN [status |-> "truncated",
                            out |-> out \o SubSeq(input, 6, Len(input))]
                      ELSE IF bfinal = 1
                      THEN [status |-> "end",
                            out |-> out \o SubSeq(input, 6, 5 + len)]
                      ELSE Inflate(SubSeq(input, 6 + len, Len(input)),
                                   out \o SubSeq(input, 6, 5 + len))

(***************************************************************************)
(* The ZIP container as its producer wrote it (the input of the builder).  *)
(* A member is [name, method, content, extra, streamed]: method 0 is       *)
(* stored, 8 is deflate; a streamed member has general-purpose flag bit 3  *)
(* set, zero sizes in its local header and a data descriptor after its     *)
(* payload, the sizes being recorded in the directory record only.         *)
(***************************************************************************)
LocalHeaderSize == 30
CentralHeaderSize == 46
TrailerSize == 22

LocalSig == <<80, 75, 3, 4>>
CentralSig == <<80, 75, 1, 2>>
TrailerSig == <<80, 75, 5, 6>>
DescriptorSig == <<80, 75, 7, 8>>
BadSig == <<0, 0, 0, 0>>

Payload(m) == IF m.method = 8 THEN Deflate(m.content) ELSE m.content

Flags(m) == IF m.streamed THEN 8 ELSE 0

LocalHeader(m, sigOK) ==
    (IF sigOK THEN LocalSig ELSE BadSig)
    \o LE(20, 2) \o LE(Flags(m), 2) \o LE(m.method, 2) \o Zeros(4) \o Zeros(4)
    \o LE(IF m.streamed THEN 0 ELSE Len(Payload(m)), 4)
    \o LE(IF m.streamed THEN 0 ELSE Len(m.content), 4)
    \o LE(Len(m.name), 2) \o LE(Len(m.extra), 2)
    \o m.name \o m.extra

DataDescriptor(m) ==
    IF m.streamed
    THEN DescriptorSig \o Zeros(4) \o LE(Len(Payload(m)), 4)
         \o LE(Len(m.content), 4)
    ELSE <<>>

LocalPart(m, sigOK) == LocalHeader(m, sigOK) \o Payload(m) \o DataDescriptor(m)

\* the local headers, payloads and descriptors of members 1..i
RECURSIVE LocalSection(_, _, _)
LocalSection(members, badLocal, i) ==
    IF i = 0 THEN <<>>
    ELSE LocalSection(members, badLocal, i - 1)
         \o LocalPart(members[i], i \notin badLocal)

\* where member i's local header starts
HeaderStart(members, i) == Len(LocalSection(members, {}, i - 1))

CentralRecord(m, headerStart) ==
    CentralSig \o LE(20, 2) \o LE(20, 2) \o LE(Flags(m), 2) \o LE(m.method, 2)
    \o Zeros(4) \o Zeros(4)
    \o LE(Len(Payload(m)), 4) \o LE(Len(m.content), 4)
    \o LE(Len(m.name), 2) \o LE(0, 2) \o LE(0, 2) \o LE(0, 2) \o LE(0, 2)
    \o LE(0, 4) \o LE(headerStart, 4)
    \o m.name

RECURSIVE CentralSection(_, _)
CentralSection(members, i) ==
    IF i = 0 THEN <<>>
    ELSE CentralSection(members, i - 1)
         \o CentralRecord(members[i], HeaderStart(members, i))

Trailer(n, cdSize, cdOffset, sigOK) ==
    (IF sigOK THEN TrailerSig ELSE BadSig)
    \o LE(0, 2) \o LE(0, 2) \o LE(n, 2) \o LE(n, 2)
    \o LE(cdSize, 4) \o LE(cdOffset, 4) \o LE(0, 2)

\* an archive of the catalogue is [members, badLocal, trailer]: badLocal is
\* the set of members whose local header signature is destroyed, trailer
\* tells whether the end-of-central-directory record is intact
ZipBytes(a) ==
    LET n     == Len(a.members)
        local == LocalSection(a.members, a.badLocal, n)
        cd    == CentralSection(a.members, n)
    IN  local \o cd \o Trailer(n, Len(cd), Len(local), a.trailer)

(***************************************************************************)
(* The zip crate's reader, as used by the builder.                         *)
(***************************************************************************)
\* the trailer is searched backwards from the last position it can start
\* at: the result is the last position holding its signature, -1 if none
FindTrailer(bytes, from) ==
    LET hits == {p \in 0..from : SubSeq(bytes, p + 1, p + 4) = TrailerSig}
    IN  IF hits = {} THEN -1
        ELSE CHOOSE p \in hits : \A q \in hits : q <= p

\* the directory records, read one after the other from position pos
RECURSIVE ReadCentral(_, _, _)
ReadCentral(bytes, pos, n) ==
    IF n = 0 THEN [ok |-> TRUE, files |-> <<>>]
    ELSE IF pos + CentralHeaderSize > Len(bytes)
            \/ SubSeq(bytes, pos + 1, pos + 4) # CentralSig
    THEN [ok |-> FALSE, files |-> <<>>]
    ELSE LET nlen == RdLE2(bytes, pos + 28)
             elen == RdLE2(bytes, pos + 30)
             clen == RdLE2(bytes, pos + 32)
             rec  == [name              |-> Slice(bytes, pos + CentralHeaderSize, nlen),
                      flags             |-> RdLE2(bytes, pos + 8),
                      method            |-> RdLE2(bytes, pos + 10),
                      compressed_size   |-> RdLE4(bytes, pos + 20),
                      uncompressed_size |-> RdLE4(bytes, pos + 24),
                      header_start      |-> RdLE4(bytes, pos + 42)]
             rest == ReadCentral(bytes,
                                 pos + CentralHeaderSize + nlen + elen + clen,
                                 n - 1)
         IN  [ok |-> rest.ok, files |-> <<rec>> \o rest.files]

\* ZipArchive::new: locate the trailer, then read the whole directory
ZipArchiveNew(bytes) ==
    LET t == FindTrailer(bytes, Len(bytes) - TrailerSize)
    IN  IF t < 0 THEN [ok |-> FALSE, files |-> <<>>]
        ELSE ReadCentral(bytes, RdLE4(bytes, t + 16), RdLE2(bytes, t + 10))

\* data_start with the extra field's length left out
DataStartNoExtra(bytes, headerStart) ==
    headerStart + LocalHeaderSize + RdLE2(bytes, headerStart + 26)

\* ZipFile::data_start: the payload starts after the local header's fixed
\* part, its name and its extra field
DataStart(bytes, headerStart) ==
    headerStart + LocalHeaderSize + RdLE2(bytes, headerStart + 26)
        + RdLE2(bytes, headerStart + 28)

\* ZipArchive::by_index: the member's local header is read; the call fails on
\* a wrong signature, an encrypted member or an unsupported method
ByIndex(bytes, rec) ==
    IF rec.header_start + LocalHeaderSize > Len(bytes)
       \/ SubSeq(bytes, rec.header_start + 1, rec.header_start + 4) # LocalSig
       \/ rec.flags % 2 = 1
       \/ rec.method \notin {0, 8}
    THEN [ok |-> FALSE, data_start |-> 0]
    ELSE [ok |-> TRUE, data_start |-> DataStart(bytes, rec.header_start)]

\* ZipFile::is_dir
IsDir(name) == Len(name) > 0 /\ name[Len(name)] \in {47, 92}

\* the closure keeping a member whose by_index failed
MetadataOfKeep(bytes, rec) ==
    <<[file_name         |-> rec.name,
       uncompressed_size |-> rec.uncompressed_size,
       compressed_size   |-> rec.compressed_size,
       is_directory      |-> IsDir(rec.name),
       file_offset       |-> ByIndex(bytes, rec).data_start]>>

\* the closure of filter_map (lines 62-77): None when by_index fails
MetadataOf(bytes, rec) ==
    LET f == ByIndex(bytes, rec)
    IN  IF ~f.ok THEN <<>>
        ELSE <<[file_name         |-> rec.name,
                uncompressed_size |-> rec.uncompressed_size,
                compressed_size   |-> rec.compressed_size,
                is_directory      |-> IsDir(rec.name),
                file_offset       |-> f.data_start]>>

\* (0..archive.len()).filter_map(..).collect()
RECURSIVE CollectMetadata(_, _, _)
CollectMetadata(bytes, files, i) ==
    IF i > Len(files) THEN <<>>
    ELSE MetadataOf(bytes, files[i]) \o CollectMetadata(bytes, files, i + 1)

(***************************************************************************)
(* The index file: serde_cbor's encoding of Vec<FileMetadata>.  A struct   *)
(* is a map keyed by the field names, a Vec a definite-length array.       *)
(* Integers of the model stay below 2^31, so the 8-byte argument form is   *)
(* never written and is rejected by the reader of the model.               *)
(***************************************************************************)
KeyFileName == <<102, 105, 108, 101, 95, 110, 97, 109, 101>>
KeyUncompressedSize ==
    <<117, 110, 99, 111, 109, 112, 114, 101, 115, 115, 101, 100, 95, 115, 105,
      122, 101>>
KeyCompressedSize ==
    <<99, 111, 109, 112, 114, 101, 115, 115, 101, 100, 95, 115, 105, 122, 101>>
KeyIsDirectory == <<105, 115, 95, 100, 105, 114, 101, 99, 116, 111, 114, 121>>
KeyFileOffset == <<102, 105, 108, 101, 95, 111, 102, 102, 115, 101, 116>>

\* big-endian k-byte argument
BE(n, k) == [i \in 1..k |-> (n \div (256 ^ (k - i))) % 256]

\* initial byte and argument of a data item, shortest form
CborHead(major, n) ==
    IF n < 24 THEN <<major * 32 + n>>
    ELSE IF n < 256 THEN <<major * 32 + 24>> \o BE(n, 1)
    ELSE IF n < 65536 THEN <<major * 32 + 25>> \o BE(n, 2)
    ELSE <<major * 32 + 26>> \o BE(n, 4)

CborUint(n) == CborHead(0, n)
CborText(s) == CborHead(3, Len(s)) \o s
CborBool(b) == IF b THEN <<245>> ELSE <<244>>

\* #[derive(Serialize)] for FileMetadata (lines 10-17): fields in order
CborMetadata(m) ==
    CborHead(5, 5)
    \o CborText(KeyFileName) \o CborText(m.file_name)
    \o CborText(KeyUncompressedSize) \o CborUint(m.uncompressed_size)
    \o CborText(KeyCompressedSize) \o CborUint(m.compressed_size)
    \o CborText(KeyIsDirectory) \o CborBool(m.is_directory)
    \o CborText(KeyFileOffset) \o CborUint(m.file_offset)

RECURSIVE CborItems(_, _)
CborItems(list, i) ==
    IF i > Len(list) THEN <<>>
    ELSE CborMetadata(list[i]) \o CborItems(list, i + 1)

\* serde_cbor::to_writer(_, &file_metadata_list)
ToWriter(list) == CborHead(4, Len(list)) \o CborItems(list, 1)

\* reading a head at 0-based pos: [ok, major, arg, next]
BadHead == [ok |-> FALSE, major |-> 0, arg |-> 0, next |-> 0]

RdBE(bytes, pos, k) ==
    IF k = 1 THEN bytes[pos + 1]
    ELSE IF k = 2 THEN 256 * bytes[pos + 1] + bytes[pos + 2]
    ELSE 16777216 * bytes[pos + 1] + 65536 * bytes[pos + 2]
         + 256 * bytes[pos + 3] + bytes[pos + 4]

\* the head's argument of k bytes follows its initial byte
HeadArg(bytes, pos, major, k) ==
    IF pos + 1 + k > Len(bytes) \/ (k = 4 /\ bytes[pos + 2] > 127) THEN BadHead
    ELSE [ok |-> TRUE, major |-> major, arg |-> RdBE(bytes, pos + 1, k),
          next |-> pos + 1 + k]

HeadOf(bytes, pos, major, info) ==
    IF info < 24
    THEN [ok |-> TRUE, major |-> major, arg |-> info, next |-> pos + 1]
    ELSE IF info > 26 THEN BadHead
    ELSE HeadArg(bytes, pos, major, 2 ^ (info - 24))

ReadHead(bytes, pos) ==
    IF pos >= Len(bytes) THEN BadHead
    ELSE HeadOf(bytes, pos, bytes[pos + 1] \div 32, bytes[pos + 1] % 32)

\* one value of the given kind at pos: [ok, val, next]
BadValue == [ok |-> FALSE, val |-> 0, next |-> 0]

UintOf(h) ==
    IF h.ok /\ h.major = 0 THEN [ok |-> TRUE, val |-> h.arg, next |-> h.next]
    ELSE BadValue

ReadUint(bytes, pos) == UintOf(ReadHead(bytes, pos))

TextOf(bytes, h) ==
    IF h.ok /\ h.major = 3 /\ h.next + h.arg <= Len(bytes)
    THEN [ok |-> TRUE, val |-> Slice(bytes, h.next, h.arg),
          next |-> h.next + h.arg]
    ELSE BadValue

ReadText(bytes, pos) == TextOf(bytes, ReadHead(bytes, pos))

ReadBool(bytes, pos) ==
    IF pos < Len(bytes) /\ bytes[pos + 1] \in {244, 245}
    THEN [ok |-> TRUE, val |-> (bytes[pos + 1] = 245), next |-> pos + 1]
    ELSE BadValue

\* the fields of a struct being read: seen holds the keys met so far
EmptyMetadata ==
    [file_name |-> <<>>, uncompressed_size |-> 0, compressed_size |-> 0,
     is_directory |-> FALSE, file_offset |-> 0]

BadStruct == [ok |-> FALSE, val |-> EmptyMetadata, seen |-> {}, next |-> 0]

\* the value of the field named key, read by the field's type; an unknown
\* key fails the read (save writes none)
ReadValue(bytes, key, pos) ==
    IF key = KeyFileName THEN ReadText(bytes, pos)
    ELSE IF key = KeyIsDirectory THEN ReadBool(bytes, pos)
    ELSE IF key \in {KeyUncompressedSize, KeyCompressedSize, KeyFileOffset}
    THEN ReadUint(bytes, pos)
    ELSE BadValue

StoreField(m, key, v) ==
    IF key = KeyFileName THEN [m EXCEPT !.file_name = v]
    ELSE IF key = KeyIsDirectory THEN [m EXCEPT !.is_directory = v]
    ELSE IF key = KeyUncompressedSize THEN [m EXCEPT !.uncompressed_size = v]
    ELSE IF key = KeyCompressedSize THEN [m EXCEPT !.compressed_size = v]
    ELSE [m EXCEPT !.file_offset = v]

FieldSet(st, key, v) ==
    IF ~v.ok THEN BadStruct
    ELSE [ok |-> TRUE, seen |-> st.seen \cup {key}, next |-> v.next,
          val |-> StoreField(st.val, key, v.val)]

\* a repeated key fails the read
FieldOf(bytes, st, key) ==
    IF ~key.ok \/ key.val \in st.seen THEN BadStruct
    ELSE FieldSet(st, key.val, ReadValue(bytes, key.val, key.next))

\* one key and its value
ReadField(bytes, st) == FieldOf(bytes, st, ReadText(bytes, st.next))

RECURSIVE ReadFields(_, _, _)
ReadFields(bytes, st, k) ==
    IF k = 0 \/ ~st.ok THEN st ELSE ReadFields(bytes, ReadField(bytes, st), k - 1)

AllFields(st) == IF st.ok /\ Cardinality(st.seen) = 5 THEN st ELSE BadStruct

MetadataAt(bytes, h) ==
    IF ~(h.ok /\ h.major = 5) THEN BadStruct
    ELSE AllFields(ReadFields(bytes,
                              [ok |-> TRUE, val |-> EmptyMetadata,
                               seen |-> {}, next |-> h.next],
                              h.arg))

\* #[derive(Deserialize)] for FileMetadata: a map holding the five fields
ReadMetadata(bytes, pos) == MetadataAt(bytes, ReadHead(bytes, pos))

ItemsCons(v, rest) ==
    [ok |-> rest.ok, list |-> <<v>> \o rest.list, next |-> rest.next]

\* the elements of the array: [ok, list, next]
RECURSIVE ReadItems(_, _, _)
ItemsAfter(bytes, m, n) ==
    IF ~m.ok THEN [ok |-> FALSE, list |-> <<>>, next |-> 0]
    ELSE ItemsCons(m.val, ReadItems(bytes, m.next, n - 1))

ReadItems(bytes, pos, n) ==
    IF n = 0 THEN [ok |-> TRUE, list |-> <<>>, next |-> pos]
    ELSE ItemsAfter(bytes, ReadMetadata(bytes, pos), n)

\* the value must end where the input ends: bytes after it are an error
\* (TrailingData)
WholeInput(bytes, items) ==
    IF items.ok /\ items.next = Len(bytes)
    THEN [ok |-> TRUE, list |-> items.list]
    ELSE [ok |-> FALSE, list |-> <<>>]

ArrayOf(bytes, h) ==
    IF ~(h.ok /\ h.major = 4) THEN [ok |-> FALSE, list |-> <<>>]
    ELSE WholeInput(bytes, ReadItems(bytes, h.next, h.arg))

\* serde_cbor::from_reader: one value, then the end of the input
FromReader(bytes) == ArrayOf(bytes, ReadHead(bytes, 0))

(***************************************************************************)
(* The files the program works on.                                         *)
(***************************************************************************)
NameA == <<97>>                  \* "a"
NameS == <<115>>                 \* "s"
NameDir == <<100, 47>>           \* "d/"
NameFile == <<100, 47, 102>>     \* "d/f"
NameNone == <<110>>              \* "n", a member of no archive

Hello == <<104, 101, 108, 108, 111>>
Hi == <<104, 105>>
Old == <<111, 108, 100>>

MemberDir ==
    [name |-> NameDir, method |-> 0, content |-> <<>>, extra |-> <<>>,
     streamed |-> FALSE]
MemberFile(e) ==
    [name |-> NameFile, method |-> 8, content |-> Hello, extra |-> Zeros(e),
     streamed |-> FALSE]
MemberStored ==
    [name |-> NameA, method |-> 0, content |-> Hi, extra |-> <<>>,
     streamed |-> FALSE]
MemberStreamed ==
    [name |-> NameS, method |-> 8, content |-> Hi, extra |-> <<>>,
     streamed |-> TRUE]

\* the archives: a directory and a deflated file, a stored and a streamed
\* member, the same with the first local header destroyed, and an archive
\* without its trailer
Catalogue ==
    << [members |-> <<MemberDir, MemberFile(MaxExtra)>>, badLocal |-> {},
        trailer |-> TRUE],
       [members |-> <<MemberStored, MemberStreamed>>, badLocal |-> {},
        trailer |-> TRUE],
       [members |-> <<MemberStored, MemberStreamed>>, badLocal |-> {1},
        trailer |-> TRUE],
       [members |-> <<MemberDir, MemberFile(0)>>, badLocal |-> {},
        trailer |-> FALSE] >>

\* zip_path: 0 names no file, z > 0 the z-th archive; the object store holds
\* the same bytes under the same key
ZipPaths == 0..Len(Catalogue)

ZipExists(z) == z # 0

ZipFile == [z \in 1..Len(Catalogue) |-> ZipBytes(Catalogue[z])]

ReqNames == {NameA, NameFile, NameDir, NameNone}

\* format!("extracted_{}", file_name)
Prefix == <<101, 120, 116, 114, 97, 99, 116, 101, 100, 95>>
OutputPath(name) == Prefix \o name

OutputPaths == {OutputPath(n) : n \in ReqNames}

NoFile == [exists |-> FALSE, bytes |-> <<>>]
FileOf(b) == [exists |-> TRUE, bytes |-> b]

\* Path::parent of a relative path: the part before the last separator, a
\* trailing separator not counting; empty when there is none
LastSlash(path, n) ==
    LET hits == {i \in 1..n : path[i] = 47}
    IN  IF hits = {} THEN 0 ELSE CHOOSE i \in hits : \A j \in hits : j <= i

Parent(path) ==
    LET n == IF Len(path) > 0 /\ path[Len(path)] = 47 THEN Len(path) - 1
             ELSE Len(path)
        k == LastSlash(path, n)
    IN  IF k = 0 THEN <<>> ELSE SubSeq(path, 1, k - 1)

VARIABLES
    indexFile,   \* the file at metadata_path
    outputs,     \* the files at the output paths
    dirs,        \* the output directories that exist
    last         \* the last call: its arguments, its steps and its result

vars == <<indexFile, outputs, dirs, last>>

NoCall ==
    [op |-> "none", zip |-> 0, name |-> <<>>, outcome |-> "none",
     eof |-> "none", loaded |-> FALSE, found |-> 0, fetch |-> "none",
     decoded |-> FALSE,
     fed |-> <<>>, events |-> <<>>, list |-> <<>>]

\* no index yet; earlier runs left a file at the output paths of "d/f" and
\* of "n", none at the output path of "a"
Init ==
    /\ indexFile = NoFile
    /\ outputs = [q \in OutputPaths |->
                     IF q \in {OutputPath(NameFile), OutputPath(NameNone)}
                     THEN FileOf(Old) ELSE NoFile]
    /\ dirs = {}
    /\ last = NoCall

(***************************************************************************)
(* save_central_directory_with_offsets (lines 57-85).                      *)
(***************************************************************************)
\* OpenOptions::new().create(true).write(true), then a write at position 0:
\* the file is not truncated, bytes past the written ones stay
WriteAtStart(file, bytes) ==
    IF file.exists /\ Len(file.bytes) > Len(bytes)
    THEN FileOf(bytes \o SubSeq(file.bytes, Len(bytes) + 1, Len(file.bytes)))
    ELSE FileOf(bytes)

Save(z) ==
    LET archive == IF ZipExists(z) THEN ZipArchiveNew(ZipFile[z])
                   ELSE [ok |-> FALSE, files |-> <<>>]
        list    == CollectMetadata(ZipFile[z], archive.files, 1)
    IN  /\ UNCHANGED <<outputs, dirs>>
        /\ IF ~ZipExists(z)
           THEN /\ last' = [NoCall EXCEPT !.op = "save", !.zip = z,
                                          !.outcome = "NotFound"]
                /\ UNCHANGED indexFile
           ELSE IF ~archive.ok
           THEN /\ last' = [NoCall EXCEPT !.op = "save", !.zip = z,
                                          !.outcome = "ZipError"]
                /\ UNCHANGED indexFile
           ELSE /\ indexFile' = WriteAtStart(indexFile, ToWriter(list))
                /\ last' = [NoCall EXCEPT !.op = "save", !.zip = z,
                                          !.outcome = "ok", !.list = list]

(***************************************************************************)
(* Steps shared by the two extractors.                                     *)
(***************************************************************************)
\* File::open(metadata_path)? then serde_cbor::from_reader(..).unwrap()
Unwrap(r) ==
    IF r.ok THEN [outcome |-> "ok", list |-> r.list]
    ELSE [outcome |-> "panic", list |-> <<>>]

LoadIndex(file) ==
    IF ~file.exists THEN [outcome |-> "NotFound", list |-> <<>>]
    ELSE Unwrap(FromReader(file.bytes))

\* .iter().find(|meta| meta.file_name == file_name): the position of the
\* first match, 0 when there is none
RECURSIVE FindFrom(_, _, _)
FindFrom(list, name, i) ==
    IF i > Len(list) THEN 0
    ELSE IF list[i].file_name = name THEN i
    ELSE FindFrom(list, name, i + 1)

Find(list, name) == FindFrom(list, name, 1)

\* create_dir_all of the output's parent when it does not exist
DirsAfter(ds, name) ==
    LET parent == Parent(OutputPath(name))
    IN  IF parent = <<>> THEN ds ELSE ds \cup {parent}

\* File::create fails on a path that names a directory
CanCreate(name) == ~IsDir(OutputPath(name))

\* take that bounds nothing
TakeAll(bytes, n) == bytes

\* Read::take(n): at most the first n bytes
Take(bytes, n) == SubSeq(bytes, 1, Min(n, Len(bytes)))

\* io::copy(&mut decoder, &mut output_file): what reaches the output file
\* and how the copy ends; eof is how the decoder ends on input cut short,
\* "ok" or "Other"
CopyEnd(r, eof) ==
    [written |-> r.out,
     cut     |-> r.status = "truncated",
     outcome |-> IF r.status = "end" THEN "ok"
                 ELSE IF r.status = "truncated" THEN eof
                 ELSE IF r.status = "corrupt" THEN "Other"
                 ELSE "undecoded"]

Copy(fed, eof) == CopyEnd(Inflate(fed, <<>>), eof)

(***************************************************************************)
(* extract_file_from_local_zip (lines 87-125).  Each stage is the rest of  *)
(* the call from one point of the function on; a stage's result is the     *)
(* record of the call and the output files and directories it leaves.      *)
(* eof is the decoder's way of ending on input cut short; the call's       *)
(* record keeps it when the decoder met such input.                        *)
(***************************************************************************)
Ended(call, outs, ds) == [call |-> call, outputs |-> outs, dirs |-> ds]

\* lines 120-124: the copy has ended
LocalCopied(call, fed, cp, outs, ds) ==
    Ended([call EXCEPT !.outcome = cp.outcome, !.decoded = TRUE, !.fed = fed,
                       !.eof = IF cp.cut THEN cp.outcome ELSE "none",
                       !.events = <<"lookup", "create", "read", "decode">>],
          [outs EXCEPT ![OutputPath(call.name)] = FileOf(cp.written)],
          ds)

\* lines 118-120: the bounded bytes go through the decoder
LocalDecode(call, fed, eof, outs, ds) ==
    LocalCopied(call, fed, Copy(fed, eof), outs, ds)

\* lines 113-117: seek to file_offset, take(compressed_size)
LocalCopy(call, z, meta, eof, outs, ds) ==
    LocalDecode(call,
                Slice(ZipFile[z], meta.file_offset, meta.compressed_size),
                eof, outs, ds)

\* lines 100-111: the output directory and the output file are created
LocalCreate(call, z, meta, eof, outs, ds) ==
    IF ~CanCreate(call.name)
    THEN Ended([call EXCEPT !.outcome = "NotFound", !.events = <<"lookup">>],
               outs, DirsAfter(ds, call.name))
    ELSE LocalCopy(call, z, meta, eof,
                   [outs EXCEPT ![OutputPath(call.name)] = FileOf(<<>>)],
                   DirsAfter(ds, call.name))

\* lines 93-96: the lookup; i is the position found
LocalLookup(call, z, list, i, eof, outs, ds) ==
    IF i = 0
    THEN Ended([call EXCEPT !.outcome = "NotFound", !.loaded = TRUE,
                            !.events = <<"lookup">>], outs, ds)
    ELSE LocalCreate([call EXCEPT !.loaded = TRUE, !.found = i], z, list[i],
                     eof, outs, ds)

\* lines 90-91: the index is loaded
LocalLoad(call, z, ld, eof, outs, ds) ==
    IF ld.outcome # "ok"
    THEN Ended([call EXCEPT !.outcome = ld.outcome], outs, ds)
    ELSE LocalLookup(call, z, ld.list, Find(ld.list, call.name), eof, outs, ds)

\* line 88 on: the call on archive z and name, given what loading the index
\* file gives (ld) and the output files it meets
LocalRun(z, name, eof, ld, outs, ds) ==
    IF ~ZipExists(z)
    THEN Ended([NoCall EXCEPT !.op = "local", !.zip = z, !.name = name,
                              !.outcome = "NotFound"], outs, ds)
    ELSE LocalLoad([NoCall EXCEPT !.op = "local", !.zip = z, !.name = name],
                   z, ld, eof, outs, ds)

ExtractLocal ==
    LET ld == LoadIndex(indexFile)
    IN  \E z \in ZipPaths, name \in ReqNames, eof \in {"ok", "Other"} :
           LET r == LocalRun(z, name, eof, ld, outputs, dirs)
           IN  /\ last' = r.call
               /\ outputs' = r.outputs
               /\ dirs' = r.dirs
               /\ UNCHANGED indexFile

(***************************************************************************)
(* extract_file_from_cloud_zip (lines 127-163) and download_bytes          *)
(* (lines 19-35).                                                          *)
(***************************************************************************)
\* a range that starts one byte late
ByteRangeLate(offset, size) == [first |-> offset + 1, last |-> offset + size]

\* format!("bytes={}-{}", file_offset, file_offset + compressed_size): the
\* first and the last position asked for, both included
ByteRange(offset, size) == [first |-> offset, last |-> offset + size]

\* get_object with a range: the request fails when the transport does, when
\* the key names no object, or when the range starts past the object's end;
\* otherwise the body is the range cut at the object's end
DownloadBytes(z, range, net) ==
    IF ~net \/ ~ZipExists(z) THEN [ok |-> FALSE, body |-> <<>>]
    ELSE IF range.first >= Len(ZipFile[z]) THEN [ok |-> FALSE, body |-> <<>>]
    ELSE [ok |-> TRUE,
          body |-> Slice(ZipFile[z], range.first, range.last - range.first + 1)]

\* lines 158-162: the copy has ended
CloudCopied(call, fed, cp, outs, ds) ==
    Ended([call EXCEPT !.outcome = cp.outcome, !.fetch = "ok",
                       !.decoded = TRUE, !.fed = fed,
                       !.eof = IF cp.cut THEN cp.outcome ELSE "none",
                       !.events = <<"lookup", "create", "fetch", "decode">>],
          [outs EXCEPT ![OutputPath(call.name)] = FileOf(cp.written)],
          ds)

\* lines 156-158: the bounded bytes go through the decoder
CloudDecode(call, fed, eof, outs, ds) ==
    CloudCopied(call, fed, Copy(fed, eof), outs, ds)

\* line 155: take(compressed_size) of the body
CloudCopy(call, meta, body, eof, outs, ds) ==
    CloudDecode(call, Take(body, meta.compressed_size), eof, outs, ds)

\* lines 152-153: the range request; .unwrap() panics when it fails
CloudFetch(call, meta, got, eof, outs, ds) ==
    IF ~got.ok
    THEN Ended([call EXCEPT !.outcome = "panic", !.fetch = "failed",
                            !.events = <<"lookup", "create", "fetch">>],
               outs, ds)
    ELSE CloudCopy(call, meta, got.body, eof, outs, ds)

\* lines 138-149: the output directory and the output file are created
CloudCreate(call, z, meta, net, eof, outs, ds) ==
    IF ~CanCreate(call.name)
    THEN Ended([call EXCEPT !.outcome = "NotFound", !.events = <<"lookup">>],
               outs, DirsAfter(ds, call.name))
    ELSE CloudFetch(call, meta,
                    DownloadBytes(z, ByteRange(meta.file_offset,
                                               meta.compressed_size), net),
                    eof,
                    [outs EXCEPT ![OutputPath(call.name)] = FileOf(<<>>)],
                    DirsAfter(ds, call.name))

\* the output file created before the lookup's result is looked at
CloudLookupAfterCreate(call, z, list, i, net, eof, outs, ds) ==
    IF i = 0
    THEN Ended([call EXCEPT !.outcome = "NotFound", !.loaded = TRUE,
                            !.events = <<"lookup">>],
               [outs EXCEPT ![OutputPath(call.name)] = FileOf(<<>>)],
               DirsAfter(ds, call.name))
    ELSE CloudCreate([call EXCEPT !.loaded = TRUE, !.found = i], z, list[i],
                     net, eof, outs, ds)

\* lines 131-134: the lookup; i is the position found
CloudLookup(call, z, list, i, net, eof, outs, ds) ==
    IF i = 0
    THEN Ended([call EXCEPT !.outcome = "NotFound", !.loaded = TRUE,
                            !.events = <<"lookup">>], outs, ds)
    ELSE CloudCreate([call EXCEPT !.loaded = TRUE, !.found = i], z, list[i],
                     net, eof, outs, ds)

\* lines 128-129: the index is loaded
CloudLoad(call, z, ld, net, eof, outs, ds) ==
    IF ld.outcome # "ok"
    THEN Ended([call EXCEPT !.outcome = ld.outcome], outs, ds)
    ELSE CloudLookup(call, z, ld.list, Find(ld.list, call.name), net, eof,
                     outs, ds)

\* the call on object z and name; net tells whether the transport delivers
\* the request and its response
CloudRun(z, name, net, eof, ld, outs, ds) ==
    CloudLoad([NoCall EXCEPT !.op = "cloud", !.zip = z, !.name = name],
              z, ld, net, eof, outs, ds)

ExtractCloud ==
    LET ld == LoadIndex(indexFile)
    IN  \E z \in ZipPaths, name \in ReqNames, net \in BOOLEAN,
           eof \in {"ok", "Other"} :
           LET r == CloudRun(z, name, net, eof, ld, outputs, dirs)
           IN  /\ last' = r.call
               /\ outputs' = r.outputs
               /\ dirs' = r.dirs
               /\ UNCHANGED indexFile

Next ==
    \/ \E z \in ZipPaths : Save(z)
    \/ ExtractLocal
    \/ ExtractCloud

Spec == Init /\ [][Next]_vars

(***************************************************************************)
(* Properties.                                                             *)
(***************************************************************************)
IsExtract(call) == call.op \in {"local", "cloud"}

\* the index file decodes, and to a list with no entry named name
Absent(name) ==
    /\ indexFile.exists
    /\ FromReader(indexFile.bytes).ok
    /\ \A i \in 1..Len(FromReader(indexFile.bytes).list) :
          FromReader(indexFile.bytes).list[i].file_name # name

\* C1: an extraction (local or remote) of a name that no entry of the loaded
\* index has returns a NotFound error, issues no fetch, and leaves the
\* output files and directories as they were before the call.
C1_MissingEntry ==
    [][ (IsExtract(last') /\ Absent(last'.name))
        => /\ last'.outcome = "NotFound"
           /\ last'.fetch = "none"
           /\ outputs' = outputs
           /\ dirs' = dirs ]_vars

\* a remote extraction of an absent name has returned NotFound and the file
\* that was at its output path before is still there
C1_Witness ==
    /\ last.op = "cloud"
    /\ Absent(last.name)
    /\ last.outcome = "NotFound"
    /\ outputs[OutputPath(last.name)] = FileOf(Old)

SavedOk == last.op = "save" /\ last.outcome = "ok"

\* C2: after a save of a non-empty list, loading the index path gives the
\* saved list back: same length, same order, same fields.
C2_RoundTrip ==
    (SavedOk /\ Len(last.list) > 0)
        => LoadIndex(indexFile) = [outcome |-> "ok", list |-> last.list]

\* C3: after a save the index file holds exactly the serialization of the
\* list just saved, whatever was saved there before.
C3_SaveOverwrites == SavedOk => indexFile.bytes = ToWriter(last.list)

\* the local extractor's result on the arguments and files of the last call
\* (the decoder ending on cut-short input as it did in the last call)
LocalTwin ==
    LocalRun(last.zip, last.name, last.eof, LoadIndex(indexFile), outputs, dirs)

SameAsLocal ==
    /\ LocalTwin.call.outcome = last.outcome
    /\ LocalTwin.outputs[OutputPath(last.name)] = outputs[OutputPath(last.name)]

\* C4 as claimed: whenever the object's bytes are the local archive's, a
\* remote extraction ends as the local extraction of the same index and
\* name does, with the same bytes in the output file.
C4_AsClaimed == (last.op = "cloud" /\ ZipExists(last.zip)) => SameAsLocal

\* C4: whenever the object's bytes are the local archive's and the range
\* request of a remote extraction did not fail (it was not issued, or it
\* returned its body), the remote extraction ends as the local extraction of
\* the same index and name does, with the same bytes in the output file.
C4_Equivalence ==
    (last.op = "cloud" /\ ZipExists(last.zip) /\ last.fetch # "failed")
        => SameAsLocal

\* a remote extraction fetched its range, succeeded and wrote the content
C4_Witness ==
    /\ last.op = "cloud"
    /\ last.fetch = "ok"
    /\ last.outcome = "ok"
    /\ outputs[OutputPath(last.name)] = FileOf(Hello)
    /\ SameAsLocal

\* the index the builder makes of archive z
BuiltIndex(z) == CollectMetadata(ZipFile[z], ZipArchiveNew(ZipFile[z]).files, 1)

WellFormed(z) ==
    ZipExists(z) /\ Catalogue[z].badLocal = {} /\ Catalogue[z].trailer

\* the position in archive z of the member named name, 0 if there is none
MemberAt(z, name) ==
    IF \E j \in 1..Len(Catalogue[z].members) : Catalogue[z].members[j].name = name
    THEN CHOOSE j \in 1..Len(Catalogue[z].members) :
            Catalogue[z].members[j].name = name
    ELSE 0

\* C5: a local extraction of a non-directory member of a well-formed
\* archive, with the index built from that archive, succeeds and leaves the
\* member's original content in the output file.
C5_ExtractionCorrect ==
    (/\ last.op = "local"
     /\ WellFormed(last.zip)
     /\ LoadIndex(indexFile) = [outcome |-> "ok", list |-> BuiltIndex(last.zip)]
     /\ MemberAt(last.zip, last.name) # 0
     /\ ~IsDir(last.name))
        => /\ last.outcome = "ok"
           /\ outputs[OutputPath(last.name)]
                = FileOf(Catalogue[last.zip].members[MemberAt(last.zip, last.name)].content)

\* C6: no extraction call aborts the process: every failure is an error
\* result of the call.
C6_NoAbort == IsExtract(last) => last.outcome # "panic"

\* what the entry e of the index built from archive z must be, by the
\* archive's layout: j is its member, h where its local header starts
OffsetIsPayloadStart(z, e, j, h) ==
    LET bytes == ZipFile[z]
        nlen  == RdLE2(bytes, h + 26)
        elen  == RdLE2(bytes, h + 28)
    IN  /\ j # 0
        /\ e.file_offset = h + LocalHeaderSize + nlen + elen
        /\ Slice(bytes, e.file_offset - (nlen + elen), nlen) = e.file_name
        /\ Slice(bytes, e.file_offset, e.compressed_size)
             = Payload(Catalogue[z].members[j])
        /\ e.file_offset + e.compressed_size <= Len(bytes)

\* the sizes in the local header at h are those of entry e
HeaderSizesMatch(z, e, h) ==
    /\ RdLE4(ZipFile[z], h + 18) = e.compressed_size
    /\ RdLE4(ZipFile[z], h + 22) = e.uncompressed_size

\* general-purpose flag bit 3 of the local header at h: sizes are in a data
\* descriptor after the payload, not in the header
HasDescriptor(z, h) == (RdLE2(ZipFile[z], h + 6) \div 8) % 2 = 1

EntryHeaderStart(z, e) ==
    HeaderStart(Catalogue[z].members, MemberAt(z, e.file_name))

\* C7 as claimed: every non-directory entry of a built index has
\* data_offset = header start + 30 + name length + extra length, the local
\* header found from it names the entry and carries its sizes, and the
\* payload span lies within the archive.
C7_AsClaimed ==
    SavedOk =>
        \A k \in 1..Len(last.list) :
            ~last.list[k].is_directory =>
                /\ OffsetIsPayloadStart(last.zip, last.list[k],
                                        MemberAt(last.zip, last.list[k].file_name),
                                        EntryHeaderStart(last.zip, last.list[k]))
                /\ HeaderSizesMatch(last.zip, last.list[k],
                                    EntryHeaderStart(last.zip, last.list[k]))

\* C7: every non-directory entry of a built index has data_offset = header
\* start + 30 + name length + extra length, the local header found from it
\* names the entry, it carries the entry's sizes when it records sizes (flag
\* bit 3 clear), the bytes at data_offset are the member's payload, and the
\* payload span lies within the archive.
C7_OffsetCorrect ==
    SavedOk =>
        \A k \in 1..Len(last.list) :
            ~last.list[k].is_directory =>
                /\ OffsetIsPayloadStart(last.zip, last.list[k],
                                        MemberAt(last.zip, last.list[k].file_name),
                                        EntryHeaderStart(last.zip, last.list[k]))
                /\ (~HasDescriptor(last.zip, EntryHeaderStart(last.zip, last.list[k]))
                      => HeaderSizesMatch(last.zip, last.list[k],
                                          EntryHeaderStart(last.zip, last.list[k])))

\* an index was built that holds a compressed member whose local header has
\* an extra field
C7_Witness ==
    /\ SavedOk
    /\ \E k \in 1..Len(last.list) :
          /\ ~last.list[k].is_directory
          /\ last.list[k].compressed_size > 0
          /\ RdLE2(ZipFile[last.zip],
                   EntryHeaderStart(last.zip, last.list[k]) + 28) > 0

\* the entry the lookup of the last call selects: the first with its name
Selected ==
    LET list == FromReader(indexFile.bytes).list
    IN  list[CHOOSE i \in 1..Len(list) :
                /\ list[i].file_name = last.name
                /\ \A j \in 1..(i - 1) : list[j].file_name # last.name]

\* C8: the bytes handed to the decoder are the archive's bytes from
\* data_offset on, never more than compressed_size of them, and all
\* compressed_size of them when the span lies within the archive.
C8_BoundedInput ==
    last.decoded =>
        /\ Len(last.fed) <= Selected.compressed_size
        /\ \A i \in 1..Len(last.fed) :
              last.fed[i] = ZipFile[last.zip][Selected.file_offset + i]
        /\ (Selected.file_offset + Selected.compressed_size
                <= Len(ZipFile[last.zip])
              => Len(last.fed) = Selected.compressed_size)

\* a remote extraction decoded a whole, non-empty payload
C8_Witness ==
    /\ last.op = "cloud"
    /\ last.decoded
    /\ Len(last.fed) > 0
    /\ Len(last.fed) = Selected.compressed_size

\* the members of archive z whose local header is intact
Readable(z) == {i \in 1..Len(Catalogue[z].members) : i \notin Catalogue[z].badLocal}

\* the k-th of them, in archive order
KthReadable(z, k) ==
    CHOOSE i \in Readable(z) : Cardinality({j \in Readable(z) : j < i}) = k - 1

C10_FetchBeforeCreate ==
    last.op = "cloud" =>
        \A i, j \in 1..Len(last.events) :
            (last.events[i] = "create" /\ last.events[j] = "fetch") => j < i
====
